---- MODULE Spec2Model ----
(***************************************************************************)
(* A model of blark's parse front end (blark/parse.py) and of the Sphinx   *)
(* cache built on it (blark/sphinxdomain.py).                              *)
(*                                                                         *)
(*   Spec        the generator returned by parse(path), driven by a        *)
(*               consumer that pulls, closes or throws into it             *)
(*   SpecParser  threads calling get_parser() on the shared _PARSER        *)
(*   SpecParse   one parse_source_code call, its result rendered and       *)
(*               parsed again or handed to check_serialization             *)
(*   SpecStages  one parse_source_code call on a text and with callables   *)
(*               that can make any of its stages fail                      *)
(*   SpecBatch   main(), or BlarkSphinxCache.configure, consuming the       *)
(*               generator to its end                                      *)
(*   SpecDomain  BlarkDomain: directive runs registering nodes, clear_doc,  *)
(*               resolve_xref                                              *)
(*   SpecCache   BlarkSphinxCache: stores by configure, find_by_name       *)
(***************************************************************************)
EXTENDS Integers, Sequences, FiniteSets, TLC

\* ------------------------------------------------------------------ bounds
MaxUnits == 3      \* units declared in one project
NPlcs == 2         \* PLCs of a multi-PLC project
NProjects == 2     \* projects listed in one solution
MaxThrows == 1     \* exceptions the consumer throws into the generator
NThreads == 2      \* threads calling get_parser
MaxCalls == 2      \* get_parser calls of one thread
MaxLen == 4        \* lexemes of one source text
MaxPre == 2        \* preprocessors given to one parse_source_code call
NFiles == 2        \* unit files the Sphinx cache is loaded from
MaxAdds == 3       \* summaries stored into the cache
MaxStageLen == 2   \* lexemes of a text whose parse may fail at any stage
MaxStagePre == 1   \* callables given to such a call
MaxRegs == 3       \* directive runs that register a function block

SeqsUpTo(S, n) == UNION {[1..k -> S] : k \in 0..n}

\* ------------------------------------------------------- the containers
\* What handling one declared unit does: "ok" parses, "bad" has source the
\* parser rejects, "empty" has an accessor returning '' or None, "noattr" has
\* no get_source_code attribute, "raises" has an accessor that raises.
Kinds == {"ok", "bad", "empty", "noattr", "raises"}
ShapeKinds == {"ok", "empty"}

PlcSize(plc) == Len(plc.dut) + Len(plc.gvl) + Len(plc.pou)

\* The PLCs holding at most n units, of the kinds K.
PlcsUpTo(K, n) ==
  UNION { UNION { { [dut |-> a, gvl |-> b, pou |-> c] :
                      c \in SeqsUpTo(K, n - Len(a) - Len(b)) } :
                  b \in SeqsUpTo(K, n - Len(a)) } :
          a \in SeqsUpTo(K, n) }

\* The sequences of k PLCs holding at most n units in all.
RECURSIVE PlcSeqs(_, _, _)
PlcSeqs(K, k, n) ==
  IF k = 0 THEN {<<>>}
  ELSE UNION { { <<plc>> \o rest : rest \in PlcSeqs(K, k - 1, n - PlcSize(plc)) } :
               plc \in PlcsUpTo(K, n) }

Project(plcs) == [suffix |-> ".tsproj", opens |-> TRUE, plcs |-> plcs]
BrokenProject == [suffix |-> ".tsproj", opens |-> FALSE, plcs |-> <<>>]
PouOnly(s) == [dut |-> <<>>, gvl |-> <<>>, pou |-> s]

\* One PLC, every kind of unit.
KindProjects == { Project(<<PouOnly(s)>>) : s \in SeqsUpTo(Kinds, MaxUnits) }
\* Several PLCs and all three groups, units that parse or have no source.
ShapeProjects == { Project(ps) : ps \in PlcSeqs(ShapeKinds, NPlcs, MaxUnits) }
\* The projects a solution lists: broken, or one PLC of at most one unit.
SlnProjects == {BrokenProject} \cup { Project(<<PouOnly(s)>>) : s \in SeqsUpTo(Kinds, 1) }
Solutions ==
  { [suffix |-> ".sln", readable |-> TRUE, projects |-> s] :
      s \in SeqsUpTo(SlnProjects, NProjects) }
  \cup { [suffix |-> ".sln", readable |-> FALSE, projects |-> <<>>] }
SourceFiles == { [suffix |-> ".tcpou", kind |-> k] : k \in {"ok", "bad", "raises"} }

Paths == KindProjects \cup ShapeProjects \cup {BrokenProject} \cup Solutions \cup SourceFiles

VARIABLES
  path,      \* the argument of parse(): a project, a solution or a source file
  pc,        \* where the generator is suspended
  fi,        \* parse: index of fn in filenames
  plc,       \* parse_project: index of plc in project.plcs
  item,      \* parse_project: index of source_item in source_items
  out,       \* the pairs the consumer has received, in order
  parsed,    \* the identifiers parse_source_code was called for, in order
  pulls,     \* next() calls made by the consumer
  throws,    \* throw() calls made by the consumer
  walkNo,    \* 1 for the first walk of the container, 2 for the second
  firstIds,  \* the identifiers the first walk yielded
  PARSER,    \* the module global _PARSER: 0 for None, else an engine instance
  tpc,       \* get_parser: the line each thread is at
  tmp,       \* get_parser: the engine new_parser returned to each thread
  ret,       \* get_parser: the engine each thread's last call returned
  builds,    \* new_parser invocations so far
  ncalls,    \* get_parser calls each thread has started
  call,      \* the last parse_source_code call: its arguments and what it did
  rt,        \* the last round trip made with the result of call
  cache,     \* BlarkSphinxCache.cache: the dict's items, in dict order
  added,     \* the filenames stored into the cache, in the order of the stores
  lookup,    \* the last find_by_name call and what it gave
  args,      \* the consumer of the stream and the arguments it was called with
  mpc,       \* the consumer: in its loop, returned, exited or raised
  result_by_filename,  \* main: the dict's items, in dict order
  failures,  \* main: the failure list
  stdout,    \* main: what it has printed or shown, in order
  summarized, \* the results handed to CodeSummary.from_source, in order
  domaindata, \* env.domaindata["bk"]: per object type a dict name -> list of items
  registered, \* directive runs that registered a node so far
  cleared,    \* the last clear_doc call: its docname and the data it found
  xref        \* the last resolve_xref call and what it returned

walkVars == <<path, pc, fi, plc, item, out, parsed, pulls, throws, walkNo, firstIds>>
parserVars == <<PARSER, tpc, tmp, ret, builds, ncalls>>
parseVars == <<call, rt>>
cacheVars == <<cache, added, lookup>>
batchVars == <<args, mpc, result_by_filename, failures, stdout, summarized>>
domainVars == <<domaindata, registered, cleared, xref>>
vars == <<walkVars, parserVars, parseVars, cacheVars, batchVars, domainVars>>

\* ------------------------------------------------------------- the walker
\* The identifier of the f-th entry of filenames.
PathId(f) == <<"path", f>>

Pair(id, res) == [id |-> id, res |-> res]
IsException(p) == p.res # "unit"

\* filenames, as parse computes it from the suffix of path.
Filenames(p) ==
  CASE p.suffix = ".tsproj" -> <<p>>
    [] p.suffix = ".sln" -> p.projects
    [] OTHER -> <<p>>

\* list(by_name.items()) of one group: the items in container order.
Items(f, p, g, kinds) ==
  [i \in 1..Len(kinds) |-> [filename |-> <<f, p, g, i>>, kind |-> kinds[i]]]

SourceItemsPouFirst(f, p, plcrec) ==
  Items(f, p, "pou", plcrec.pou) \o Items(f, p, "dut", plcrec.dut)
    \o Items(f, p, "gvl", plcrec.gvl)

SourceItems(f, p, plcrec) ==
  Items(f, p, "dut", plcrec.dut) \o Items(f, p, "gvl", plcrec.gvl)
    \o Items(f, p, "pou", plcrec.pou)

HasAccessorAlways(u) == TRUE

\* hasattr(source_item, "get_source_code")
HasAccessor(u) == u.kind # "noattr"

\* source_item.get_source_code(): the text, or "RAISE" when the call raises.
GetSourceCode(u) ==
  CASE u.kind = "raises" -> "RAISE"
    [] u.kind = "empty" -> ""
    [] u.kind = "bad" -> "malformed"
    [] OTHER -> "wellformed"

\* parse_source_code as the walker sees it: a result, or the parser's exception.
ParseOutcome(source_code) == IF source_code = "wellformed" THEN "unit" ELSE "ParseError"

\* A suspension of the generator: where, what it yields there, and the
\* parse_source_code calls made on the way.
Stop(where, f, p, i, emit, calls) ==
  [pc |-> where, fi |-> f, plc |-> p, item |-> i, emit |-> emit, calls |-> calls]

CaughtEscapes(f, err, calls) == Stop("raised", f, 0, 0, <<>>, calls)

\* parse, lines 204-207: the exception of entry f is yielded with its path.
Caught(f, err, calls) == Stop("y207", f, 0, 0, <<Pair(PathId(f), err)>>, calls)

RECURSIVE WalkFrom(_, _, _, _), LoopFrom(_, _)

\* parse_project from source_items[i] of project.plcs[p], up to its next yield.
WalkFrom(files, f, p, i) ==
  LET plcs == files[f].plcs IN
  IF p > Len(plcs) THEN LoopFrom(files, f + 1)
  ELSE LET items == SourceItems(f, p, plcs[p]) IN
    IF i > Len(items) THEN WalkFrom(files, f, p + 1, 1)
    ELSE LET u == items[i] IN
      IF ~HasAccessor(u) THEN WalkFrom(files, f, p, i + 1)
      ELSE LET source_code == GetSourceCode(u) IN
        IF source_code = "RAISE" THEN Caught(f, "SourceError", <<>>)
        ELSE IF source_code = "" THEN WalkFrom(files, f, p, i + 1)
        ELSE IF ParseOutcome(source_code) = "unit"
          THEN Stop("y173", f, p, i, <<Pair(u.filename, "unit")>>, <<u.filename>>)
          ELSE Stop("y179", f, p, i, <<Pair(u.filename, "ParseError")>>, <<u.filename>>)

\* The for loop of parse from filenames[f], up to the generator's next yield.
LoopFrom(files, f) ==
  IF f > Len(files) THEN Stop("done", f, 0, 0, <<>>, <<>>)
  ELSE LET fn == files[f] IN
    IF fn.suffix = ".tsproj"
    THEN IF fn.opens THEN WalkFrom(files, f, 1, 1) ELSE Caught(f, "OpenError", <<>>)
    ELSE CASE fn.kind = "raises" -> Caught(f, "SourceError", <<>>)
           [] fn.kind = "bad" -> Caught(f, "ParseError", <<PathId(f)>>)
           [] OTHER -> Stop("y203", f, 0, 0, <<Pair(PathId(f), "unit")>>, <<PathId(f)>>)

Suspended == {"y173", "y179", "y203", "y207"}

\* A walker that parses the unit after the one it yields ahead of the request.
ResumeAhead ==
  LET r == CASE pc = "start" ->
                  IF path.suffix = ".sln" /\ ~path.readable
                  THEN Stop("raised", 0, 0, 0, <<>>, <<>>)
                  ELSE LoopFrom(Filenames(path), 1)
             [] pc \in {"y173", "y179"} -> WalkFrom(Filenames(path), fi, plc, item + 1)
             [] OTHER -> LoopFrom(Filenames(path), fi + 1)
  IN IF r.pc \in {"y173", "y179"}
     THEN [r EXCEPT !.calls = @ \o WalkFrom(Filenames(path), r.fi, r.plc, r.item + 1).calls]
     ELSE r

\* next(gen): the generator runs from where it is suspended to its next yield.
Resume ==
  CASE pc = "start" ->
         IF path.suffix = ".sln" /\ ~path.readable
         THEN Stop("raised", 0, 0, 0, <<>>, <<>>)
         ELSE LoopFrom(Filenames(path), 1)
    [] pc \in {"y173", "y179"} -> WalkFrom(Filenames(path), fi, plc, item + 1)
    [] OTHER -> LoopFrom(Filenames(path), fi + 1)

\* gen.throw(exc) at the suspended yield.
Thrown ==
  CASE pc = "y173" ->
         Stop("y179", fi, plc, item,
              <<Pair(SourceItems(fi, plc, Filenames(path)[fi].plcs[plc])[item].filename,
                     "Thrown")>>, <<>>)
    [] pc \in {"y179", "y203"} -> Caught(fi, "Thrown", <<>>)
    [] OTHER -> Stop("raised", fi, 0, 0, <<>>, <<>>)

Land(r) ==
  /\ pc' = r.pc
  /\ fi' = r.fi
  /\ plc' = r.plc
  /\ item' = r.item
  /\ out' = out \o r.emit
  /\ parsed' = parsed \o r.calls

WalkInit ==
  /\ path \in Paths
  /\ pc = "start"
  /\ fi = 0
  /\ plc = 0
  /\ item = 0
  /\ out = <<>>
  /\ parsed = <<>>
  /\ pulls = 0
  /\ throws = 0
  /\ walkNo = 1
  /\ firstIds = <<>>

Pull ==
  /\ pc \in Suspended \cup {"start"}
  /\ Land(Resume)
  /\ pulls' = pulls + 1
  /\ UNCHANGED <<path, throws, walkNo, firstIds>>
  /\ UNCHANGED <<parserVars, parseVars, cacheVars>>
  /\ UNCHANGED batchVars
  /\ UNCHANGED domainVars

Throw ==
  /\ pc \in Suspended \cup {"start"}
  /\ throws < MaxThrows
  /\ Land(Thrown)
  /\ throws' = throws + 1
  /\ UNCHANGED <<path, pulls, walkNo, firstIds>>
  /\ UNCHANGED <<parserVars, parseVars, cacheVars>>
  /\ UNCHANGED batchVars
  /\ UNCHANGED domainVars

Close ==
  /\ pc \in Suspended \cup {"start"}
  /\ pc' = "closed"
  /\ UNCHANGED <<path, fi, plc, item, out, parsed, pulls, throws, walkNo, firstIds>>
  /\ UNCHANGED <<parserVars, parseVars, cacheVars>>
  /\ UNCHANGED batchVars
  /\ UNCHANGED domainVars

Ids(s) == [k \in 1..Len(s) |-> s[k].id]

\* A second call of parse(path) once the first generator is exhausted.
Restart ==
  /\ pc = "done"
  /\ walkNo = 1
  /\ throws = 0
  /\ walkNo' = 2
  /\ firstIds' = Ids(out)
  /\ pc' = "start"
  /\ fi' = 0
  /\ plc' = 0
  /\ item' = 0
  /\ out' = <<>>
  /\ parsed' = <<>>
  /\ pulls' = 0
  /\ UNCHANGED <<path, throws>>
  /\ UNCHANGED <<parserVars, parseVars, cacheVars>>
  /\ UNCHANGED batchVars
  /\ UNCHANGED domainVars

\* ------------------------------------------------ vocabulary of the claims
Files == Filenames(path)
ProjectIndexes == {f \in 1..Len(Files) : Files[f].suffix = ".tsproj"}

\* The declared units of project f, as a set.
UnitsOf(f) ==
  UNION { UNION { { [filename |-> <<f, p, g, i>>, kind |-> Files[f].plcs[p][g][i]] :
                      i \in 1..Len(Files[f].plcs[p][g]) } :
                  g \in {"dut", "gvl", "pou"} } :
          p \in 1..Len(Files[f].plcs) }
AllUnits == UNION {UnitsOf(f) : f \in ProjectIndexes}

GroupRank(g) == CASE g = "dut" -> 1 [] g = "gvl" -> 2 [] OTHER -> 3
IsUnitId(id) == Len(id) = 4

\* Unit a comes before unit b in the container: by project, then PLC, then
\* group (data types, global variable lists, program units), then position.
Before(a, b) ==
  \/ a[1] < b[1]
  \/ a[1] = b[1] /\ a[2] < b[2]
  \/ a[1] = b[1] /\ a[2] = b[2] /\ GroupRank(a[3]) < GroupRank(b[3])
  \/ a[1] = b[1] /\ a[2] = b[2] /\ a[3] = b[3] /\ a[4] < b[4]

WithSource(u) == u.kind \in {"ok", "bad"}
NoSource(u) == u.kind \in {"empty", "noattr"}
PairsOf(id) == {k \in 1..Len(out) : out[k].id = id}
IsPrefix(s, t) == Len(s) <= Len(t) /\ \A k \in 1..Len(s) : s[k] = t[k]

\* C1: a failure raised while handling a unit (retrieving its source or
\* parsing it) never aborts enumeration: once the generator is exhausted by
\* pulls alone, every later unit of the same project that has non-empty
\* source has got its pair.
C1_FailureNeverAborts ==
  (pc = "done" /\ throws = 0) =>
    \A u \in AllUnits : \A v \in AllUnits :
      (/\ u.kind \in {"bad", "raises"}
       /\ u.filename[1] = v.filename[1]
       /\ Before(u.filename, v.filename)
       /\ WithSource(v))
      => PairsOf(v.filename) # {}

\* C2: every unit with non-empty source that parse_project has enumerated
\* has exactly one pair in the stream, whatever the consumer does.
C2_OnePairPerUnit ==
  \A k \in 1..Len(parsed) :
    IsUnitId(parsed[k]) => Cardinality(PairsOf(parsed[k])) = 1

\* Project f cannot be walked to its end: it does not open, or the source
\* accessor of one of its units raises.
Fails(f) == ~Files[f].opens \/ \E u \in UnitsOf(f) : u.kind = "raises"
FullyYielded(f) == \A u \in UnitsOf(f) : WithSource(u) => PairsOf(u.filename) # {}
IdProject(id) == IF IsUnitId(id) THEN id[1] ELSE id[2]

\* C6: parse walks the projects of its argument in order; a project that
\* fails (on opening, or by an exception escaping its walk) gets a single
\* (project path, exception) pair, the generator does not die of it, every
\* later project is still walked, and pairs already yielded stay as they are.
C6_ProjectFailureIsolated ==
  /\ [](/\ \A f \in ProjectIndexes :
             /\ Cardinality(PairsOf(PathId(f))) <= 1
             /\ \A k \in PairsOf(PathId(f)) : IsException(out[k])
        /\ \A k \in 1..Len(out) : \A l \in 1..Len(out) :
             k < l => IdProject(out[k].id) <= IdProject(out[l].id)
        /\ pc = "raised" => (throws > 0 \/ (path.suffix = ".sln" /\ ~path.readable))
        /\ pc = "done" =>
             \A f \in ProjectIndexes :
               /\ Fails(f) => PairsOf(PathId(f)) # {}
               /\ PairsOf(PathId(f)) = {} => FullyYielded(f))
  /\ [][walkNo' = walkNo => IsPrefix(out, out')]_vars

C6_Witness ==
  /\ path.suffix = ".sln"
  /\ pc = "done"
  /\ Len(out) = 2
  /\ out[1] = Pair(PathId(1), "SourceError")
  /\ out[2] = Pair(<<2, 1, "pou", 1>>, "unit")

Range(s) == {s[k] : k \in 1..Len(s)}

\* C7: a unit without retrievable source (no accessor, or empty text) gets
\* no pair and is never handed to the parser, and the units after it are
\* still enumerated.
C7_NoSourceOmitted ==
  /\ \A u \in AllUnits :
       NoSource(u) => (PairsOf(u.filename) = {} /\ u.filename \notin Range(parsed))
  /\ (pc = "done" /\ throws = 0) =>
       \A f \in ProjectIndexes : ~Fails(f) => FullyYielded(f)

C7_Witness ==
  \E u \in AllUnits : \E v \in AllUnits :
    /\ u.kind = "noattr"
    /\ u.filename[1] = v.filename[1]
    /\ Before(u.filename, v.filename)
    /\ PairsOf(v.filename) # {}
    /\ \E w \in AllUnits : w.kind = "empty" /\ Before(w.filename, v.filename)

\* C8: pairs come in container order (PLCs in order; in a PLC data types,
\* then global variable lists, then program units, each group in order), and
\* a second walk of the same container yields the same identifiers.
C8_DeterministicOrder ==
  /\ \A k \in 1..Len(out) : \A l \in 1..Len(out) :
       (k < l /\ IsUnitId(out[k].id) /\ IsUnitId(out[l].id)) =>
         /\ ~Before(out[l].id, out[k].id)
         /\ throws = 0 => Before(out[k].id, out[l].id)
  /\ (walkNo = 2 /\ throws = 0) =>
       /\ IsPrefix(Ids(out), firstIds)
       /\ pc = "done" => Ids(out) = firstIds

C8_Witness ==
  /\ walkNo = 2
  /\ pc = "done"
  /\ throws = 0
  /\ Len(out) = 3
  /\ out[1].id = <<1, 1, "dut", 1>>
  /\ out[2].id = <<1, 1, "pou", 1>>
  /\ out[3].id = <<1, 2, "gvl", 1>>

\* C9: the stream is lazy and cancellable: parse_source_code runs only inside
\* a next() call and once per call, so no unit is parsed ahead of the
\* consumer's request; after close() nothing more is parsed or yielded; and
\* the pairs already yielded never change.
C9_LazyCancellable ==
  /\ [](Len(parsed) <= pulls)
  /\ [][(walkNo' = walkNo /\ parsed' # parsed) =>
          (pulls' = pulls + 1 /\ Len(parsed') = Len(parsed) + 1)]_vars
  /\ [][pc = "closed" => (out' = out /\ parsed' = parsed /\ pc' = "closed")]_vars
  /\ [][walkNo' = walkNo => IsPrefix(out, out')]_vars

C9_Witness ==
  /\ pc = "closed"
  /\ Len(out) = 1
  /\ \E u \in AllUnits : WithSource(u) /\ u.filename \notin Range(parsed)

\* ---------------------------------------------------- the shared parser
Threads == 1..NThreads
None == 0

ParserInit ==
  /\ PARSER = None
  /\ tpc = [t \in Threads |-> "idle"]
  /\ tmp = [t \in Threads |-> None]
  /\ ret = [t \in Threads |-> None]
  /\ builds = 0
  /\ ncalls = [t \in Threads |-> 0]

\* No thread ever calls get_parser.
ParserOff ==
  /\ PARSER = None
  /\ tpc = [t \in Threads |-> "off"]
  /\ tmp = [t \in Threads |-> None]
  /\ ret = [t \in Threads |-> None]
  /\ builds = 0
  /\ ncalls = [t \in Threads |-> 0]

\* A thread calls get_parser().
GetParserCall(t) ==
  /\ tpc[t] = "idle"
  /\ ncalls[t] < MaxCalls
  /\ tpc' = [tpc EXCEPT ![t] = "l51"]
  /\ ncalls' = [ncalls EXCEPT ![t] = @ + 1]
  /\ UNCHANGED <<PARSER, tmp, ret, builds>>
  /\ UNCHANGED <<walkVars, parseVars, cacheVars>>
  /\ UNCHANGED batchVars
  /\ UNCHANGED domainVars

\* Line 51: if _PARSER is None
GetParserTest(t) ==
  /\ tpc[t] = "l51"
  /\ tpc' = [tpc EXCEPT ![t] = IF PARSER = None THEN "l52" ELSE "l53"]
  /\ UNCHANGED <<PARSER, tmp, ret, builds, ncalls>>
  /\ UNCHANGED <<walkVars, parseVars, cacheVars>>
  /\ UNCHANGED batchVars
  /\ UNCHANGED domainVars

\* Line 52, right-hand side: new_parser() builds an engine of its own.
NewParser(t) ==
  /\ tpc[t] = "l52"
  /\ builds' = builds + 1
  /\ tmp' = [tmp EXCEPT ![t] = builds + 1]
  /\ tpc' = [tpc EXCEPT ![t] = "l52store"]
  /\ UNCHANGED <<PARSER, ret, ncalls>>
  /\ UNCHANGED <<walkVars, parseVars, cacheVars>>
  /\ UNCHANGED batchVars
  /\ UNCHANGED domainVars

\* Line 52, the assignment: _PARSER = <the new engine>
GetParserStore(t) ==
  /\ tpc[t] = "l52store"
  /\ PARSER' = tmp[t]
  /\ tpc' = [tpc EXCEPT ![t] = "l53"]
  /\ UNCHANGED <<tmp, ret, builds, ncalls>>
  /\ UNCHANGED <<walkVars, parseVars, cacheVars>>
  /\ UNCHANGED batchVars
  /\ UNCHANGED domainVars

\* Line 53: return _PARSER
GetParserReturn(t) ==
  /\ tpc[t] = "l53"
  /\ ret' = [ret EXCEPT ![t] = PARSER]
  /\ tpc' = [tpc EXCEPT ![t] = "idle"]
  /\ UNCHANGED <<PARSER, tmp, builds, ncalls>>
  /\ UNCHANGED <<walkVars, parseVars, cacheVars>>
  /\ UNCHANGED batchVars
  /\ UNCHANGED domainVars

\* The walker with no get_parser caller beside it.
WalkOff ==
  /\ path = BrokenProject
  /\ pc = "closed"
  /\ fi = 0
  /\ plc = 0
  /\ item = 0
  /\ out = <<>>
  /\ parsed = <<>>
  /\ pulls = 0
  /\ throws = 0
  /\ walkNo = 1
  /\ firstIds = <<>>


\* C3: the shared engine is built exactly once even under concurrent first
\* use: new_parser runs at most once and every caller gets the same engine.
C3_BuiltOnce ==
  /\ builds <= 1
  /\ \A t \in Threads : \A u \in Threads :
       (ret[t] # None /\ ret[u] # None) => ret[t] = ret[u]

\* ------------------------------------------------------ parse_source_code
\* A source text is a sequence of lexemes: identifiers, the statement
\* terminator, a blank, a comment.
Idents == {"a", "b"}
Blank == " "
Comment == "(*c*)"
Lexemes == Idents \cup {";", Blank, Comment}
Texts == SeqsUpTo(Lexemes, MaxLen)
\* A comment opener that is never closed.
Unterminated == "(*"

\* The callables a caller may pass as preprocessors: a macro substitution, an
\* injected leading statement, an appended terminator.
Preprocessors == {"subst", "inject", "term"}
Preprocess(pp, text) ==
  CASE pp = "subst" -> [k \in 1..Len(text) |-> IF text[k] = "a" THEN "b" ELSE text[k]]
    [] pp = "inject" -> <<"a", ";">> \o text
    [] pp = "check" -> text
    [] OTHER -> text \o <<";">>
\* A preprocessor is any callable: "check" raises its own error on a text
\* with no code in it and returns every other text as it is.
Callables == Preprocessors \cup {"check"}
PreprocessRaises(pp, text) ==
  pp = "check" /\ \A k \in 1..Len(text) : text[k] \in {Blank, Comment}

DEFAULT_PREPROCESSORS == <<>>
\* The preprocessors argument: a list, or the sentinel it defaults to.
DefaultSentinel == [sentinel |-> TRUE]
PreprocessorArgs ==
  { [sentinel |-> FALSE, list |-> l] : l \in SeqsUpTo(Preprocessors, MaxPre) }
  \cup {DefaultSentinel}

Positions(text) == [k \in 1..Len(text) |-> k]
Reverse(s) == [k \in 1..Len(s) |-> s[Len(s) + 1 - k]]

\* The for loop of lines 97-99, with the calls it makes.
RECURSIVE RunPreprocessors(_, _, _)
RunPreprocessors(pps, processed_source, log) ==
  IF pps = <<>> THEN [text |-> processed_source, log |-> log, raised |-> FALSE]
  ELSE IF PreprocessRaises(Head(pps), processed_source)
  THEN [text |-> processed_source, log |-> log, raised |-> TRUE]
  ELSE LET r == Preprocess(Head(pps), processed_source) IN
       RunPreprocessors(Tail(pps), r,
                        Append(log, [pp |-> Head(pps), arg |-> processed_source, ret |-> r]))

ApplyReversed(preprocessors, source_code) ==
  RunPreprocessors(Reverse(preprocessors), source_code, <<>>)

ApplyPreprocessors(preprocessors, source_code) ==
  RunPreprocessors(preprocessors, source_code, <<>>)

\* util.find_and_clean_comments: the comments with their positions, and the
\* text with every comment blanked out so that offsets stay put.
FindAndCleanComments(text) ==
  [comments |-> [j \in 1..Len(SelectSeq(Positions(text), LAMBDA k : text[k] = Comment)) |->
                   [pos |-> SelectSeq(Positions(text), LAMBDA k : text[k] = Comment)[j],
                    text |-> Comment]],
   clean |-> [k \in 1..Len(text) |-> IF text[k] = Comment THEN Blank ELSE text[k]]]

\* find_and_clean_comments fails on a comment that is never closed.
FindAndCleanCommentsRaises(text) ==
  \E k \in 1..Len(text) : text[k] = Unterminated

\* parser.parse: the tree of a text made of statements `ident ;`, each node
\* with its half-open span, or an exception.
ParserParse(text) ==
  LET toks == SelectSeq(Positions(text), LAMBDA k : text[k] # Blank)
      n == Len(toks)
      wellFormed ==
        /\ n > 0
        /\ n % 2 = 0
        /\ \A j \in 1..n : IF j % 2 = 1 THEN text[toks[j]] \in Idents
                                       ELSE text[toks[j]] = ";"
  IN IF wellFormed
     THEN [raised |-> FALSE,
           tree |-> [j \in 1..(n \div 2) |->
                       [name |-> text[toks[2 * j - 1]],
                        start |-> toks[2 * j - 1],
                        end |-> toks[2 * j] + 1]]]
     ELSE [raised |-> TRUE]

\* GrammarTransformer(comments, fn, source_code).transform(tree): one
\* statement per node, each claiming the comments from the end of the
\* previous statement to its own end; the rest trail the unit.
Transform(tree, comments, source_code) ==
  LET from(j) == IF j = 1 THEN 1 ELSE tree[j - 1].end
      texts(lo, hi) ==
        LET sel == SelectSeq(comments, LAMBDA c : lo <= c.pos /\ c.pos < hi)
        IN [k \in 1..Len(sel) |-> sel[k].text]
  IN [stmts |-> [j \in 1..Len(tree) |->
                   [name |-> tree[j].name,
                    comments |-> texts(from(j), tree[j].end),
                    span |-> <<tree[j].start, tree[j].end>>]],
      trailing |-> texts(tree[Len(tree)].end, Len(source_code) + Len(comments) + MaxLen + 8),
      raw_source |-> source_code]

\* The transformer rejects a name declared twice.
TransformRaises(tree) ==
  \E i \in 1..Len(tree) : \E j \in 1..Len(tree) :
    i < j /\ tree[i].name = tree[j].name

NoCall == [outcome |-> "none"]
CustomParser == 99

\* The identifier a caller passes as fn, "unknown" when it passes none.
Fns == {"unknown", "MAIN.TcPOU"}
NoFn == "-"
\* The error a stage raises. A preprocessor, the comment extractor and the
\* parsing engine are each called with the text alone (lines 99, 101, 106);
\* the transformer alone is constructed with fn (line 128).
StageError(stage, fn) ==
  CASE stage = "preprocess" -> [stage |-> stage, type |-> "PreprocessorError", fn |-> NoFn]
    [] stage = "comments" -> [stage |-> stage, type |-> "LexicalError", fn |-> NoFn]
    [] stage = "parse" -> [stage |-> stage, type |-> "GrammarError", fn |-> NoFn]
    [] OTHER -> [stage |-> stage, type |-> "DuplicateDeclarationError", fn |-> fn]

\* parse_source_code(source_code, verbose=..., fn=..., preprocessors=...,
\* parser=..., transform=...): the result, or the exception that leaves the
\* function, with what it printed on the way.
ParseSourceCode(source_code, verbose, fn, preprocessors, parser, transform) ==
  LET pps == IF preprocessors.sentinel THEN DEFAULT_PREPROCESSORS
             ELSE preprocessors.list
      pre == ApplyPreprocessors(pps, source_code)
      found == FindAndCleanComments(pre.text)
      parse == ParserParse(found.clean)
      params == [source_code |-> source_code,
               verbose |-> verbose,
               fn |-> fn,
               preprocessors |-> preprocessors,
               log |-> pre.log,
               parser |-> parser,
               printed |-> <<>>]
      base == params @@ [extract_arg |-> pre.text, parse_arg |-> found.clean]
  IN IF pre.raised
     THEN [outcome |-> "raised", exception |-> StageError("preprocess", fn)] @@ params
     ELSE IF FindAndCleanCommentsRaises(pre.text)
     THEN [outcome |-> "raised", exception |-> StageError("comments", fn),
           extract_arg |-> pre.text] @@ params
     ELSE IF parse.raised
     THEN [outcome |-> "raised", exception |-> StageError("parse", fn),
           printed |-> IF verbose > 1 THEN <<"Parse failure", source_code, fn>> ELSE <<>>]
          @@ base
     ELSE IF transform
          THEN IF TransformRaises(parse.tree)
               THEN [outcome |-> "raised", exception |-> StageError("transform", fn),
                     transformer_comments |-> found.comments,
                     transformer_source |-> source_code] @@ base
               ELSE base @@ [outcome |-> "transformed",
                        transformer_comments |-> found.comments,
                        transformer_source |-> source_code,
                        result |-> Transform(parse.tree, found.comments, source_code)]
          ELSE base @@ [outcome |-> "tree", result |-> parse.tree]

ParseInit ==
  /\ call = NoCall
  /\ rt = [kind |-> "none"]

\* parse_source_code is never called.
ParseOff ==
  /\ call = [outcome |-> "off"]
  /\ rt = [kind |-> "none"]

\* A caller parses one text; with parser=None the shared engine is used.
ParseCall ==
  /\ call.outcome = "none"
  /\ \E source_code \in Texts, preprocessors \in PreprocessorArgs,
        parser \in {None, CustomParser}, transform \in BOOLEAN :
       /\ call' = ParseSourceCode(source_code, 0, "unknown", preprocessors,
                                  IF parser # None THEN parser
                                  ELSE IF PARSER = None THEN builds + 1 ELSE PARSER,
                                  transform)
       /\ PARSER' = IF parser = None /\ PARSER = None THEN builds + 1 ELSE PARSER
       /\ builds' = IF parser = None /\ PARSER = None THEN builds + 1 ELSE builds
  /\ rt' = [kind |-> "none"]
  /\ UNCHANGED <<tpc, tmp, ret, ncalls>>
  /\ UNCHANGED <<walkVars, cacheVars>>
  /\ UNCHANGED batchVars
  /\ UNCHANGED domainVars

\* str() of a transformed unit: its statements one blank apart, each behind
\* the comments it holds, then the trailing comments.
RECURSIVE RenderStmts(_)
RenderStmts(stmts) ==
  IF stmts = <<>> THEN <<>>
  ELSE LET st == stmts[Len(stmts)]
           before == RenderStmts(SubSeq(stmts, 1, Len(stmts) - 1))
       IN before \o (IF before = <<>> THEN <<>> ELSE <<Blank>>)
                 \o st.comments \o <<st.name, ";">>

RenderWithoutTrailing(ast) == RenderStmts(ast.stmts)

Render(ast) == RenderStmts(ast.stmts) \o ast.trailing

\* apischema.serialize(obj, exclude_defaults=True): the fields that differ
\* from their defaults (an empty comment list is a default).
Serialize(obj) ==
  LET stmts == [j \in 1..Len(obj.stmts) |->
                  IF obj.stmts[j].comments = <<>>
                  THEN [name |-> obj.stmts[j].name, span |-> obj.stmts[j].span]
                  ELSE obj.stmts[j]]
  IN IF obj.trailing = <<>>
     THEN [stmts |-> stmts, raw_source |-> obj.raw_source]
     ELSE [stmts |-> stmts, raw_source |-> obj.raw_source, trailing |-> obj.trailing]

\* apischema.deserialize(type(obj), serialized): absent fields take their
\* defaults.
Deserialize(data) ==
  [stmts |-> [j \in 1..Len(data.stmts) |->
                [name |-> data.stmts[j].name,
                 span |-> data.stmts[j].span,
                 comments |-> IF "comments" \in DOMAIN data.stmts[j]
                              THEN data.stmts[j].comments ELSE <<>>]],
   trailing |-> IF "trailing" \in DOMAIN data THEN data.trailing ELSE <<>>,
   raw_source |-> data.raw_source]

\* conftest.check_serialization(obj, deserialize, require_same_source)
CheckSerializationOf(obj, apischema, deserialize, require_same_source) ==
  IF ~apischema THEN [kind |-> "serialization", outcome |-> "skipped"]
  ELSE IF ~deserialize
    THEN [kind |-> "serialization", outcome |-> "returned",
          serialized |-> Serialize(obj)]
    ELSE LET deserialized == Deserialize(Serialize(obj)) IN
      [kind |-> "serialization",
       outcome |-> IF require_same_source /\ Render(obj) # Render(deserialized)
                   THEN "AssertionError" ELSE "returned",
       serialized |-> Serialize(obj),
       deserialized |-> deserialized]

\* The rendered result of the last call is parsed again.
Reparse ==
  /\ call.outcome = "transformed"
  /\ rt.kind = "none"
  /\ rt' = [kind |-> "reparse",
            rendered |-> Render(call.result),
            again |-> ParseSourceCode(Render(call.result), 0, "unknown", DefaultSentinel,
                                      call.parser, TRUE)]
  /\ UNCHANGED <<call, parserVars, walkVars, cacheVars>>
  /\ UNCHANGED batchVars
  /\ UNCHANGED domainVars

\* A test hands the result of the last call to check_serialization.
CheckSerialization ==
  /\ call.outcome = "transformed"
  /\ rt.kind = "none"
  /\ \E apischema \in BOOLEAN, deserialize \in BOOLEAN, require_same_source \in BOOLEAN :
       rt' = CheckSerializationOf(call.result, apischema, deserialize, require_same_source)
  /\ UNCHANGED <<call, parserVars, walkVars, cacheVars>>
  /\ UNCHANGED batchVars
  /\ UNCHANGED domainVars

\* Two units agree in every semantic field: statement names, the comments
\* each statement holds, the trailing comments; spans aside.
SameSemantics(x, y) ==
  /\ Len(x.stmts) = Len(y.stmts)
  /\ \A j \in 1..Len(x.stmts) :
       /\ x.stmts[j].name = y.stmts[j].name
       /\ x.stmts[j].comments = y.stmts[j].comments
  /\ x.trailing = y.trailing

StageTexts == SeqsUpTo(Lexemes \cup {Unterminated}, MaxStageLen)
StageArgs ==
  { [sentinel |-> FALSE, list |-> l] : l \in SeqsUpTo(Callables, MaxStagePre) }
  \cup {DefaultSentinel}
StageCall ==
  /\ call.outcome = "none"
  /\ \E source_code \in StageTexts, verbose \in {0, 2}, fn \in Fns,
        preprocessors \in StageArgs, parser \in {None, CustomParser},
        transform \in BOOLEAN :
       LET reached == ~ApplyPreprocessors(IF preprocessors.sentinel
                                          THEN DEFAULT_PREPROCESSORS
                                          ELSE preprocessors.list, source_code).raised
                      /\ ~FindAndCleanCommentsRaises(
                            ApplyPreprocessors(IF preprocessors.sentinel
                                               THEN DEFAULT_PREPROCESSORS
                                               ELSE preprocessors.list, source_code).text)
           built == reached /\ parser = None /\ PARSER = None
       IN /\ call' = ParseSourceCode(source_code, verbose, fn, preprocessors,
                                     IF parser # None THEN parser
                                     ELSE IF PARSER = None THEN builds + 1 ELSE PARSER,
                                     transform)
          /\ PARSER' = IF built THEN builds + 1 ELSE PARSER
          /\ builds' = IF built THEN builds + 1 ELSE builds
  /\ rt' = [kind |-> "none"]
  /\ UNCHANGED <<tpc, tmp, ret, ncalls>>
  /\ UNCHANGED <<walkVars, cacheVars>>
  /\ UNCHANGED batchVars
  /\ UNCHANGED domainVars

\* C11: when a stage of parse_source_code fails (a preprocessor, comment
\* extraction, the parse, the transformation), the call returns no result
\* and the error that leaves it is that stage's own error, carrying the
\* identifier fn the call was given.
C11_StageErrorAnnotated ==
  call.outcome = "raised" =>
    /\ "result" \notin DOMAIN call
    /\ call.exception = StageError(call.exception.stage, call.fn)
    /\ call.exception.fn = call.fn

\* C17: the text the transformer is given as source_code is the text the
\* comments and the tree positions were computed from, and every comment
\* position and node span lies inside it.
C17_TransformerSourceIsParsedText ==
  call.outcome = "transformed" =>
    /\ call.transformer_source = call.extract_arg
    /\ \A j \in 1..Len(call.transformer_comments) :
         call.transformer_comments[j].pos \in 1..Len(call.transformer_source)
    /\ \A j \in 1..Len(call.result.stmts) :
         /\ call.result.stmts[j].span[1] \in 1..Len(call.transformer_source)
         /\ call.result.stmts[j].span[2] \in 1..(Len(call.transformer_source) + 1)

\* -------------------------------------------------------- BlarkSphinxCache
CacheFiles == 1..NFiles
Names == {"FB_Motor", "FB_Valve"}

\* d[key] = value on a dict kept as its items in order: a new key goes last,
\* a known key keeps its place.
DictSet(d, key, value) ==
  IF \E i \in 1..Len(d) : d[i].key = key
  THEN [i \in 1..Len(d) |-> IF d[i].key = key THEN [key |-> key, value |-> value] ELSE d[i]]
  ELSE Append(d, [key |-> key, value |-> value])

\* CodeSummary.from_source(info): the function blocks the unit declares, each
\* record an object of its own.
FromSource(names, serial) == [function_blocks |-> [n \in names |-> <<n, serial>>]]

RECURSIVE FindByNameLast(_, _)
FindByNameLast(items, name) ==
  IF items = <<>> THEN [raised |-> TRUE]
  ELSE LET summary == items[Len(items)].value IN
       IF name \in DOMAIN summary.function_blocks
       THEN [raised |-> FALSE, value |-> summary.function_blocks[name]]
       ELSE FindByNameLast(SubSeq(items, 1, Len(items) - 1), name)

\* find_by_name over self.cache.values(): the first item that has the name,
\* else KeyError.
RECURSIVE FindByName(_, _)
FindByName(items, name) ==
  IF items = <<>> THEN [raised |-> TRUE]
  ELSE LET summary == Head(items).value IN
       IF name \in DOMAIN summary.function_blocks
       THEN [raised |-> FALSE, value |-> summary.function_blocks[name]]
       ELSE FindByName(Tail(items), name)

CacheInit ==
  /\ cache = <<>>
  /\ added = <<>>
  /\ lookup = [name |-> "none"]

\* The cache is never configured.
CacheOff ==
  /\ cache = <<>>
  /\ added = <<>>
  /\ lookup = [name |-> "off"]

\* configure, line 144: self.cache[fn] = CodeSummary.from_source(info)
ConfigureStore ==
  /\ lookup.name # "off"
  /\ Len(added) < MaxAdds
  /\ \E fn \in CacheFiles, names \in SUBSET Names :
       cache' = DictSet(cache, fn, FromSource(names, Len(added) + 1))
       /\ added' = Append(added, fn)
  /\ lookup' = [name |-> "none"]
  /\ UNCHANGED <<walkVars, parserVars, parseVars>>
  /\ UNCHANGED batchVars
  /\ UNCHANGED domainVars

\* BlarkDirective.run, line 166: find_by_name(obj_name)
Lookup ==
  /\ lookup.name # "off"
  /\ \E name \in Names :
       lookup' = [name |-> name] @@ FindByName(cache, name)
  /\ UNCHANGED <<cache, added, walkVars, parserVars, parseVars>>
  /\ UNCHANGED batchVars
  /\ UNCHANGED domainVars

\* The store that first put fn into the cache.
FirstAdd(fn) == CHOOSE k \in 1..Len(added) :
                  added[k] = fn /\ \A j \in 1..Len(added) : added[j] = fn => k <= j
Holders(name) == {i \in 1..Len(cache) : name \in DOMAIN cache[i].value.function_blocks}

\* C10: find_by_name returns the record of the first cached summary, in the
\* order the units were added, whose function_blocks has the name, and
\* raises KeyError exactly when no cached summary has it.
C10_FirstMatchOrKeyError ==
  (lookup.name \in Names) =>
    /\ lookup.raised <=> Holders(lookup.name) = {}
    /\ Holders(lookup.name) # {} =>
         \E i \in Holders(lookup.name) :
           /\ \A j \in Holders(lookup.name) :
                FirstAdd(cache[i].key) <= FirstAdd(cache[j].key)
           /\ lookup.value = cache[i].value.function_blocks[lookup.name]

C10_Witness ==
  /\ lookup.name \in Names
  /\ added = <<1, 2, 1>>
  /\ Holders(lookup.name) = {1, 2}
  /\ ~lookup.raised
  /\ lookup.value = <<lookup.name, 3>>

\* ------------------------------------------------ consumers of the stream
\* The containers main and configure are run on.
BatchPaths == KindProjects \cup {BrokenProject} \cup Solutions \cup SourceFiles

\* main(filename, verbose, debug, interactive, summary)
MainArgs ==
  { [consumer |-> "main", verbose |-> v, debug |-> d, interactive |-> i, summary |-> sm] :
      v \in {0, 1, 2}, d \in BOOLEAN, i \in BOOLEAN, sm \in BOOLEAN }
\* BlarkSphinxCache.configure(app, config), config.blark_projects = [path]
ConfigureArgs == { [consumer |-> "configure"] }

BatchInit ==
  /\ args \in MainArgs \cup ConfigureArgs
  /\ mpc = "loop"
  /\ result_by_filename = <<>>
  /\ failures = <<>>
  /\ stdout = <<>>
  /\ summarized = <<>>

\* Neither main nor configure runs.
BatchOff ==
  /\ args = [consumer |-> "off"]
  /\ mpc = "off"
  /\ result_by_filename = <<>>
  /\ failures = <<>>
  /\ stdout = <<>>
  /\ summarized = <<>>

RecordFirstFailureOnly(failed, pair) ==
  IF IsException(pair) /\ failed = <<>> THEN Append(failed, <<pair.id, pair.res>>)
  ELSE failed

\* main, lines 275-276: a result that is an exception joins the failure list.
RecordFailure(failed, pair) ==
  IF IsException(pair) THEN Append(failed, <<pair.id, pair.res>>) ELSE failed

\* main, lines 272-289: what one pass of the loop body prints or shows.
LoopOutput(a, pair) ==
  (IF a.verbose > 0 THEN <<[kind |-> "loading", fn |-> pair.id]>> ELSE <<>>)
  \o (IF IsException(pair)
      THEN IF a.interactive THEN <<[kind |-> "session", fn |-> pair.id]>>
           ELSE IF a.verbose > 1 THEN <<[kind |-> "traceback", fn |-> pair.id]>>
           ELSE <<>>
      ELSE IF a.summary THEN <<[kind |-> "summary", fn |-> pair.id]>> ELSE <<>>)

\* main, lines 294-322: what is shown and printed after the loop.
FinalOutput(a, results, failed) ==
  IF results = <<>> THEN <<>>
  ELSE (IF a.interactive
        THEN <<[kind |-> "session",
                fn |-> IF Len(results) > 1 THEN "results" ELSE results[1].key]>>
        ELSE <<>>)
       \o (IF failed # <<>>
           THEN <<[kind |-> "failed", fn |-> "Failed to parse some source code files:"]>>
                \o [k \in 1..Len(failed) |->
                      [kind |-> "failure", fn |-> failed[k][1], exception |-> failed[k][2]]]
           ELSE <<>>)

FinishIgnoringDebug(results, failed, debug) ==
  IF results = <<>> THEN "returned"
  ELSE IF failed # <<>> THEN "exit1" ELSE "returned"

\* main, lines 291-327: how it ends once the loop is over: sys.exit(1), or
\* a return of {} or of result_by_filename.
Finish(results, failed, debug) ==
  IF results = <<>> THEN "returned"
  ELSE IF failed # <<>> /\ ~debug THEN "exit1" ELSE "returned"

\* One next() of main's for loop with what follows it: the loop body on a
\* pair, the rest of main once the stream is exhausted, or the exception
\* of parse() leaving main.
MainNext ==
  /\ args.consumer = "main"
  /\ mpc = "loop"
  /\ Land(Resume)
  /\ pulls' = pulls + 1
  /\ LET r == Resume IN
     IF r.pc \in Suspended
     THEN /\ result_by_filename' = DictSet(result_by_filename, r.emit[1].id, r.emit[1].res)
          /\ failures' = RecordFailure(failures, r.emit[1])
          /\ summarized' = IF ~IsException(r.emit[1]) /\ args.summary
                           THEN Append(summarized, r.emit[1].res) ELSE summarized
          /\ stdout' = stdout \o LoopOutput(args, r.emit[1])
          /\ mpc' = "loop"
     ELSE IF r.pc = "done"
     THEN /\ mpc' = Finish(result_by_filename, failures, args.debug)
          /\ stdout' = stdout \o FinalOutput(args, result_by_filename, failures)
          /\ UNCHANGED <<result_by_filename, failures, summarized>>
     ELSE /\ mpc' = "raised"
          /\ UNCHANGED <<result_by_filename, failures, summarized, stdout>>
  /\ UNCHANGED <<path, throws, walkNo, firstIds, args>>
  /\ UNCHANGED <<parserVars, parseVars, cacheVars>>
  /\ UNCHANGED domainVars

\* One next() of configure's inner loop with the store of line 144.
\* from_source is called on whatever the pair holds; what it does with an
\* exception is not defined by its contract: it raises, or it returns a
\* summary of nothing.
ConfigureNext ==
  /\ args.consumer = "configure"
  /\ mpc = "loop"
  /\ Land(Resume)
  /\ pulls' = pulls + 1
  /\ LET r == Resume IN
     IF r.pc \in Suspended
     THEN /\ summarized' = Append(summarized, r.emit[1].res)
          /\ \E raises \in (IF IsException(r.emit[1]) THEN BOOLEAN ELSE {FALSE}),
                names \in (IF IsException(r.emit[1]) THEN {{}} ELSE SUBSET Names) :
               IF raises
               THEN mpc' = "raised" /\ UNCHANGED <<cache, added>>
               ELSE /\ mpc' = "loop"
                    /\ cache' = DictSet(cache, r.emit[1].id,
                                        FromSource(names, Len(added) + 1))
                    /\ added' = Append(added, r.emit[1].id)
     ELSE /\ mpc' = IF r.pc = "done" THEN "returned" ELSE "raised"
          /\ UNCHANGED <<summarized, cache, added>>
  /\ UNCHANGED <<path, throws, walkNo, firstIds, args, lookup>>
  /\ UNCHANGED <<result_by_filename, failures, stdout>>
  /\ UNCHANGED <<parserVars, parseVars>>
  /\ UNCHANGED domainVars

\* The pairs the walker yields from stop r on when it is only ever pulled.
RECURSIVE Drain(_)
Drain(r) ==
  IF r.pc \notin Suspended THEN <<>>
  ELSE r.emit \o Drain(IF r.pc \in {"y173", "y179"}
                       THEN WalkFrom(Filenames(path), r.fi, r.plc, r.item + 1)
                       ELSE LoopFrom(Filenames(path), r.fi + 1))
WholeStream == Drain(LoopFrom(Filenames(path), 1))
Failed(s) == LET ex == SelectSeq(s, IsException)
             IN [k \in 1..Len(ex) |-> <<ex[k].id, ex[k].res>>]
Report == SelectSeq(stdout, LAMBDA e : e.kind \in {"failed", "failure"})
Ended == mpc \in {"returned", "exit1"}
Get(d, key) == d[CHOOSE i \in 1..Len(d) : d[i].key = key].value

\* C12: main does not stop at the first failure: it consumes every pair
\* the walker yields, its failure list holds exactly the pairs whose result
\* is an exception, in yield order, and the report of the failures is
\* printed, all of them together, only once the stream is exhausted.
C12_BatchCollectsFailures ==
  args.consumer = "main" =>
    /\ failures = Failed(out)
    /\ Ended => pc = "done" /\ out = WholeStream
    /\ ~Ended => Report = <<>>
    /\ Ended =>
         Report = IF failures = <<>> THEN <<>>
                  ELSE <<[kind |-> "failed", fn |-> "Failed to parse some source code files:"]>>
                       \o [k \in 1..Len(failures) |->
                             [kind |-> "failure", fn |-> failures[k][1],
                              exception |-> failures[k][2]]]

C12_Witness ==
  /\ args.consumer = "main"
  /\ Ended
  /\ Len(out) = 3
  /\ IsException(out[1]) /\ ~IsException(out[2]) /\ IsException(out[3])
  /\ Len(failures) = 2
  /\ Len(Report) = 3

\* C13: every consumer of the stream hands only results that are not
\* exceptions to CodeSummary.from_source, and an error pair never ends
\* the loading of the units after it.
C13_SummaryOnlyOfUnits ==
  /\ \A k \in 1..Len(summarized) : summarized[k] = "unit"
  /\ (args.consumer = "configure" /\ mpc = "raised") => pc = "raised"

\* C14: main ends in sys.exit(1) exactly when some yielded pair was a
\* failure and debug is false; with debug true it returns the mapping of
\* every identifier to its result, the failed ones included; on an empty
\* stream it returns an empty mapping and does not exit.
C14_ExitStatus ==
  (args.consumer = "main" /\ Ended) =>
    /\ mpc = "exit1" <=> ((\E k \in 1..Len(out) : IsException(out[k])) /\ ~args.debug)
    /\ mpc = "returned" =>
         /\ Len(result_by_filename) = Cardinality({out[k].id : k \in 1..Len(out)})
         /\ \A k \in 1..Len(out) :
              (\A j \in (k + 1)..Len(out) : out[j].id # out[k].id)
                => Get(result_by_filename, out[k].id) = out[k].res
    /\ out = <<>> => (mpc = "returned" /\ result_by_filename = <<>>)

C14_Witness ==
  /\ args.consumer = "main"
  /\ mpc = "returned"
  /\ args.debug
  /\ \E k \in 1..Len(out) : IsException(out[k])
  /\ \E k \in 1..Len(out) : ~IsException(out[k])
  /\ Len(result_by_filename) = Len(out)

\* ------------------------------------------------------------ BlarkDomain
\* The function blocks a directive may name: bare, or with a declaration,
\* an action and a method that declares the same name.
FBShapes ==
  { [decls |-> <<>>, actions |-> <<>>, methods |-> <<>>],
    [decls |-> <<"x">>, actions |-> <<"Run">>,
     methods |-> <<[name |-> "Start", decls |-> <<"x">>]>>] }
FBs == { [name |-> n] @@ sh : n \in Names, sh \in FBShapes }
Docnames == {"index", "api"}

\* BlarkDomain.initial_data: the dictionaries, in the order of its keys.
DicNames == <<"module", "type", "functionblock", "parameter", "method", "action">>
\* BlarkDomain.object_types in dict order: ObjType(lname, *roles).
ObjectTypes ==
  << [typename |-> "functionblock", roles |-> {"func", "fb"}],
     [typename |-> "type", roles |-> {"type"}],
     [typename |-> "module", roles |-> {"mod"}],
     [typename |-> "parameter", roles |-> {"parameter"}] >>
\* The keys of BlarkDomain.roles.
Roles == {"functionblock", "fb", "parameter", "type", "mod"}

\* Node.from_decl / from_action / from_method / from_fb: objtype and ids[0].
Node(objtype, qualified_name) == [objtype |-> objtype, qualified_name |-> qualified_name]
ParameterNodes(fb, decls) ==
  [k \in 1..Len(decls) |-> Node("parameter", <<fb.name, decls[k]>>)]
ActionNodes(fb) ==
  [k \in 1..Len(fb.actions) |-> Node("action", <<fb.name, fb.actions[k]>>)]
RECURSIVE MethodNodes(_, _)
MethodNodes(fb, methods) ==
  IF methods = <<>> THEN <<>>
  ELSE <<Node("method", <<fb.name, Head(methods).name>>)>>
       \o ParameterNodes(fb, Head(methods).decls)
       \o MethodNodes(fb, Tail(methods))
\* FunctionBlockNode.from_fb(fb) in the order ElementWithDeclarations.register
\* walks it: the node, then each child with its own children.
FromFb(fb) ==
  <<Node("functionblock", <<fb.name>>)>> \o ParameterNodes(fb, fb.decls)
    \o ActionNodes(fb) \o MethodNodes(fb, fb.methods)

DictGet(d, key, default) ==
  IF \E i \in 1..Len(d) : d[i].key = key
  THEN d[CHOOSE i \in 1..Len(d) : d[i].key = key].value
  ELSE default

\* BlarkNode.register: domaindata[objtype].setdefault(qualified_name, []).append(item)
RegisterNode(data, node, entry) ==
  [data EXCEPT ![node.objtype] =
     DictSet(@, node.qualified_name,
             Append(DictGet(@, node.qualified_name, <<>>), entry))]

RECURSIVE RegisterAll(_, _, _, _)
RegisterAll(data, nodes, docname, run) ==
  IF nodes = <<>> THEN data
  ELSE RegisterAll(RegisterNode(data, Head(nodes),
                                [docname |-> docname, scope |-> <<>>,
                                 qualified_name |-> Head(nodes).qualified_name,
                                 serial |-> <<run, Len(nodes)>>]),
                   Tail(nodes), docname, run)

\* list.pop(i), with i counted from 1.
Pop(methods, i) ==
  IF i \in 1..Len(methods)
  THEN [k \in 1..(Len(methods) - 1) |-> IF k < i THEN methods[k] ELSE methods[k + 1]]
  ELSE methods

RECURSIVE PopAll(_, _)
PopAll(methods, idxs) ==
  IF idxs = <<>> THEN methods ELSE PopAll(Pop(methods, Head(idxs)), Tail(idxs))

ItemsToDeleteAscending(methods, docname) ==
  SelectSeq(Positions(methods), LAMBDA i : methods[i].docname = docname)

\* clear_doc, lines 307-310: every hit is inserted at the front, so the
\* indexes come out highest first.
ItemsToDelete(methods, docname) ==
  Reverse(SelectSeq(Positions(methods), LAMBDA i : methods[i].docname = docname))

\* clear_doc(docname) on the dictionaries.
ClearedData(dictionaries, docname) ==
  [dicname \in DOMAIN dictionaries |->
     [k \in 1..Len(dictionaries[dicname]) |->
        [key |-> dictionaries[dicname][k].key,
         value |-> PopAll(dictionaries[dicname][k].value,
                          ItemsToDelete(dictionaries[dicname][k].value, docname))]]]

\* find_obj(rolename, node, targetstring)
FindObj(rolename, targetstring) ==
  LET hits == SelectSeq(ObjectTypes, LAMBDA t : rolename \in t.roles)
  IN IF hits = <<>> THEN <<>>
     ELSE DictGet(domaindata[Head(hits).typename], targetstring, <<>>)

\* resolve_xref(..., typ, target, ...): None, or the reference node made
\* from the first match.
ResolveXrefOf(typ, target) ==
  LET matches == FindObj(typ, target)
  IN IF matches = <<>>
     THEN [typ |-> typ, target |-> target, found |-> FALSE, warnings |-> 1]
     ELSE [typ |-> typ, target |-> target, found |-> TRUE,
           warnings |-> IF Len(matches) > 1 THEN 1 ELSE 0,
           refdoc |-> matches[1].docname, refid |-> matches[1].qualified_name,
           match |-> matches[1]]

NoXref == [typ |-> "none"]
NoClear == [docname |-> "none"]

DomainInit ==
  /\ domaindata = [d \in Range(DicNames) |-> <<>>]
  /\ registered = 0
  /\ cleared = NoClear
  /\ xref = NoXref

\* No Sphinx environment exists.
DomainOff ==
  /\ domaindata = <<>>
  /\ registered = 0
  /\ cleared = [docname |-> "off"]
  /\ xref = [typ |-> "off"]

\* BlarkDirective.run in document docname on a function block the cache holds.
Register ==
  /\ xref = NoXref
  /\ registered < MaxRegs
  /\ \E fb \in FBs, docname \in Docnames :
       domaindata' = RegisterAll(domaindata, FromFb(fb), docname, registered + 1)
  /\ registered' = registered + 1
  /\ cleared' = NoClear
  /\ xref' = NoXref
  /\ UNCHANGED <<walkVars, parserVars, parseVars, cacheVars, batchVars>>

\* Sphinx drops a document that is read again.
ClearDoc ==
  /\ xref = NoXref
  /\ \E docname \in Docnames :
       /\ domaindata' = ClearedData(domaindata, docname)
       /\ cleared' = [docname |-> docname, before |-> domaindata]
  /\ xref' = NoXref
  /\ UNCHANGED registered
  /\ UNCHANGED <<walkVars, parserVars, parseVars, cacheVars, batchVars>>

\* The targets a cross-reference may name.
Targets == { <<n>> : n \in Names } \cup { <<n, "x">> : n \in Names }

\* Once the documents are read, Sphinx resolves a cross-reference made with
\* one of the domain's roles.
ResolveXref ==
  /\ xref = NoXref
  /\ \E typ \in Roles, target \in Targets :
       xref' = ResolveXrefOf(typ, target)
  /\ UNCHANGED <<domaindata, registered, cleared>>
  /\ UNCHANGED <<walkVars, parserVars, parseVars, cacheVars, batchVars>>

\* The entries of a list that belong to other documents, in their order.
Others(methods, docname) == SelectSeq(methods, LAMBDA it : it.docname # docname)

\* C15: clear_doc(docname) removes from every dictionary exactly the
\* entries of that document, several under one name included, and leaves
\* the entries of the other documents in place and in their order.
C15_ClearDocExact ==
  cleared.docname \in Docnames =>
    \A d \in DOMAIN cleared.before :
      /\ Len(domaindata[d]) = Len(cleared.before[d])
      /\ \A k \in 1..Len(cleared.before[d]) :
           /\ domaindata[d][k].key = cleared.before[d][k].key
           /\ domaindata[d][k].value = Others(cleared.before[d][k].value, cleared.docname)

C15_Witness ==
  /\ cleared.docname \in Docnames
  /\ \E k \in 1..Len(cleared.before["parameter"]) :
       LET was == cleared.before["parameter"][k].value IN
       /\ Len(was) = 6
       /\ was[1].docname = cleared.docname
       /\ was[2].docname = cleared.docname
       /\ was[3].docname # cleared.docname
       /\ was[4].docname # cleared.docname
       /\ was[5].docname = cleared.docname
       /\ Len(domaindata["parameter"][k].value) = 2

\* The object type each role stands for.
RoleType(role) ==
  CASE role \in {"functionblock", "fb"} -> "functionblock"
    [] role = "mod" -> "module"
    [] OTHER -> role

\* C16: every role of BlarkDomain.roles is mapped by find_obj to its
\* object type: when an entry of that type is registered under the target
\* name, resolve_xref with that role returns a reference to the first one.
C16_RolesResolve ==
  (xref.typ \in Roles /\ DictGet(domaindata[RoleType(xref.typ)], xref.target, <<>>) # <<>>) =>
    /\ xref.found
    /\ xref.match = DictGet(domaindata[RoleType(xref.typ)], xref.target, <<>>)[1]

\* ------------------------------------------------------ specifications


Init == WalkInit /\ ParserOff /\ ParseOff /\ CacheOff /\ BatchOff /\ DomainOff
Next == Pull \/ Throw \/ Close \/ Restart
Spec == Init /\ [][Next]_vars

InitParser == ParserInit /\ WalkOff /\ ParseOff /\ CacheOff /\ BatchOff /\ DomainOff
NextParser ==
  \E t \in Threads :
    \/ GetParserCall(t)
    \/ GetParserTest(t)
    \/ NewParser(t)
    \/ GetParserStore(t)
    \/ GetParserReturn(t)
SpecParser == InitParser /\ [][NextParser]_vars

InitParse == ParseInit /\ WalkOff /\ ParserOff /\ CacheOff /\ BatchOff /\ DomainOff
NextParse == ParseCall \/ Reparse \/ CheckSerialization
SpecParse == InitParse /\ [][NextParse]_vars

InitStages == ParseInit /\ WalkOff /\ ParserOff /\ CacheOff /\ BatchOff /\ DomainOff
NextStages == StageCall
SpecStages == InitStages /\ [][NextStages]_vars

InitBatch == WalkInit /\ path \in BatchPaths /\ ParserOff /\ ParseOff /\ CacheOff /\ BatchInit /\ DomainOff
NextBatch == MainNext \/ ConfigureNext
SpecBatch == InitBatch /\ [][NextBatch]_vars

InitDomain == DomainInit /\ WalkOff /\ ParserOff /\ ParseOff /\ CacheOff /\ BatchOff
NextDomain == Register \/ ClearDoc \/ ResolveXref
SpecDomain == InitDomain /\ [][NextDomain]_vars

InitCache == CacheInit /\ WalkOff /\ ParserOff /\ ParseOff /\ BatchOff /\ DomainOff
NextCache == ConfigureStore \/ Lookup
SpecCache == InitCache /\ [][NextCache]_vars

====
